---- MODULE Spec2Model ----
(***************************************************************************)
(* State-machine model of the Ares creative studio (React).  The           *)
(* repository holds two builds of the same application, src/index.tsx and  *)
(* src/unnamed/part_000; the variable build says which one runs.           *)
(*                                                                         *)
(* React semantics kept by the model:                                      *)
(*  - a handler reads the state of the render it was created in; after an  *)
(*    await it still reads those captured values (request fields loading,  *)
(*    prompt, modelType), while a ref (abortControllerRef) is read live;   *)
(*  - a state setter of an unmounted component does nothing, a callback    *)
(*    into App (onAddToGallery) still acts because App stays mounted;      *)
(*  - an action is one handler invocation, or the continuation of a        *)
(*    handler after the awaited call settled, run to the end of its        *)
(*    try/catch/finally.                                                   *)
(***************************************************************************)
EXTENDS Integers, Sequences, FiniteSets, TLC

\* ------------------------------------------------------------------ bounds
MaxRequests == 2    \* requests issued to the external API in one behaviour
MaxMounts == 2      \* times the studio views are mounted in one behaviour
MaxChunks == 2      \* chunks of one streamed answer
MaxPan == 1         \* largest pan offset followed, in pixels, in each direction

\* ------------------------------------------------------- program constants
MinKeyLen == 10         \* key.length < 10 disables the submit button
CooldownSeconds == 60   \* setCooldown(60)
MaxRefImages == 4       \* remainingSlots = 4 - refImages.length
MaxWidth == 384         \* compressImage(file, 384, 0.6)
ScaleOne == 1000        \* useState(1): the scale, counted in thousandths
ScaleMax == 5000        \* Math.min(s + 0.5, 5)
ZoomStep == 500         \* s + 0.5, s - 0.5

\* ------------------------------------------------------------ value helpers
Min(a, b) == IF a <= b THEN a ELSE b
Max(a, b) == IF a >= b THEN a ELSE b

Null == <<>>
Some(x) == <<x>>

Builds == {"index", "part_000"}
Tabs == {"generate", "edit", "analyze", "chat", "gallery"}

IsSpace(c) == c = " "

RECURSIVE TrimLeft(_)
TrimLeft(s) == IF s # <<>> /\ IsSpace(Head(s)) THEN TrimLeft(Tail(s)) ELSE s

RECURSIVE TrimRight(_)
TrimRight(s) ==
    IF s # <<>> /\ IsSpace(s[Len(s)]) THEN TrimRight(SubSeq(s, 1, Len(s) - 1)) ELSE s

\* String.prototype.trim
Trim(s) == TrimRight(TrimLeft(s))

\* texts the user can put into a prompt field
PromptInputs == { <<>>, <<" ">>, <<" ", "a">>, <<"b">> }

\* texts the user can put into the API key field
KeyA == <<"A", "I", "z", "a", "-", "k", "e", "y", "-", "A">>
KeyB == <<"A", "I", "z", "a", "-", "k", "e", "y", "-", "B", "B">>
KeyInputs == { <<>>, <<"k", "e", "y">>,
               <<" ", " ", " ", " ", " ", " ", " ", " ", " ", " ">>, KeyA, KeyB }

\* the key literal index.tsx falls back to (value abbreviated)
DefaultKey == <<"A", "I", "z", "a", "-", "b", "u", "i", "l", "t", "i", "n">>

\* values Math.random().toString(36).substr(2, 9) can return
IdValues == {"id1", "id2"}

\* ------------------------------------------------------- external responses
ImagePart(mime, data) == [inlineData |-> TRUE, mimeType |-> mime, data |-> data, text |-> <<>>]
TextPart(t) == [inlineData |-> FALSE, mimeType |-> "", data |-> "", text |-> t]

Rejected(m) ==
    [rejected |-> TRUE, message |-> m, candidates |-> <<>>, imageBytes |-> "", text |-> <<>>]
Resolved(c) ==
    [rejected |-> FALSE, message |-> <<>>, candidates |-> c, imageBytes |-> "", text |-> <<>>]
ResolvedImagen(b) ==
    [rejected |-> FALSE, message |-> <<>>, candidates |-> <<>>, imageBytes |-> b, text |-> <<>>]
ResolvedText(t) ==
    [rejected |-> FALSE, message |-> <<>>, candidates |-> <<>>, imageBytes |-> "", text |-> t]
Candidate(reason, parts) == [finishReason |-> reason, parts |-> parts]

\* error.message of a rejected call, as a sequence of words
ApiErrorMessages ==
    { <<>>, <<"429", "Quota", "exceeded">>, <<"403", "permission", "denied">>,
      <<"400", "INVALID", "argument">>, <<"network", "error">> }

RefusalText == <<"I", "cannot", "draw", "that">>

\* what ai.models.generateContent of the image model can settle with
ContentResponses ==
    { Rejected(m) : m \in ApiErrorMessages }
    \cup { Resolved(<<>>),
           Resolved(<<Candidate("SAFETY", <<>>)>>),
           Resolved(<<Candidate("OTHER", <<>>)>>),
           Resolved(<<Candidate("STOP", <<>>)>>),
           Resolved(<<Candidate("STOP", <<TextPart(RefusalText)>>)>>),
           Resolved(<<Candidate("STOP", <<ImagePart("image/png", "img1")>>)>>),
           Resolved(<<Candidate("STOP", <<ImagePart("", "img2")>>)>>),
           Resolved(<<Candidate("STOP", <<TextPart(RefusalText), ImagePart("image/png", "img1"),
                                          ImagePart("image/png", "img2")>>)>>) }

\* what ai.models.generateImages can settle with
ImagenResponses ==
    { Rejected(m) : m \in ApiErrorMessages }
    \cup { ResolvedImagen(""), ResolvedImagen("img1") }

\* `data:${mime};base64,${data}`
DataUrl(mime, data) == <<"data:", mime, ";base64,", data>>

\* index of the first part carrying inlineData, 0 when there is none
RECURSIVE FirstInline(_, _)
FirstInline(parts, i) ==
    IF i > Len(parts) THEN 0
    ELSE IF parts[i].inlineData THEN i
    ELSE FirstInline(parts, i + 1)

\* rejectionText: the text parts met before the loop ends or breaks
RECURSIVE TextBefore(_, _, _)
TextBefore(parts, i, stop) ==
    IF i > Len(parts) \/ i = stop THEN <<>>
    ELSE parts[i].text \o TextBefore(parts, i + 1, stop)

\* msg.includes(word), on a message that is a sequence of words
Includes(msg, word) == \E i \in 1..Len(msg) : msg[i] = word

LowerWord(w) ==
    CASE w = "Quota" -> "quota"
      [] w = "INVALID" -> "invalid"
      [] w = "Permission" -> "permission"
      [] w = "Billing" -> "billing"
      [] OTHER -> w

\* msg.toLowerCase()
ToLowerCase(msg) == [i \in 1..Len(msg) |-> LowerWord(msg[i])]

\* error.message || fallback
MessageOr(m, fallback) == IF m = <<>> THEN fallback ELSE m

\* ------------------------------------------------------------- error texts
Text(t) == <<t>>

\* GenerateView catch of index.tsx: [msg |-> text shown, cooldown |-> TRUE when
\* setCooldown(60) runs]
GenerateErrorIndex(message) ==
    LET msg == MessageOr(message, Text("Failed."))
        lowerMsg == ToLowerCase(msg)
    IN  IF Includes(lowerMsg, "429") \/ Includes(lowerMsg, "quota")
        THEN [msg |-> Text("Quota Exceeded. Cooling down 60s."), cooldown |-> TRUE]
        ELSE IF Includes(lowerMsg, "403") \/ Includes(lowerMsg, "permission")
                \/ Includes(lowerMsg, "billing")
        THEN [msg |-> Text("Access Denied: Check Billing or Domain restrictions on your API Key."),
              cooldown |-> FALSE]
        ELSE IF Includes(lowerMsg, "400") \/ Includes(lowerMsg, "invalid")
        THEN [msg |-> Text("Bad Request: Model may not be supported in your region or project."),
              cooldown |-> FALSE]
        ELSE [msg |-> msg, cooldown |-> FALSE]

\* GenerateView catch of part_000: three independent ifs, each on the current msg
GenerateErrorPart(message) ==
    LET m0 == MessageOr(message, Text("Failed to generate image."))
        m1 == IF Includes(m0, "400")
              THEN <<"400", "Bad Request: Check API Key permissions or Prompt content.">>
              ELSE m0
        m2 == IF Includes(m1, "403")
              THEN <<"403", "Forbidden: Your API Key might not support Image Generation.">>
              ELSE m1
        m3 == IF Includes(m2, "429")
              THEN <<"429", "Quota Exceeded: You are generating too fast.">>
              ELSE m2
    IN  [msg |-> m3, cooldown |-> FALSE]

GenerateError(b, message) ==
    IF b = "index" THEN GenerateErrorIndex(message) ELSE GenerateErrorPart(message)

\* ------------------------------------------------------------------- state
VARIABLES
    build,              \* which source file runs: "index" or "part_000"
    localStorageKey,    \* localStorage['user_gemini_api_key']: Null or Some(key)
    userApiKey,         \* App state; <<>> is ''
    showSettingsModal,  \* App state
    activeTab,          \* App state
    galleryItems,       \* App state: sequence of gallery items
    sharedPrompt,       \* App state
    submitted,          \* history: saveApiKey has run
    inst,               \* number of the mounted instance of the views (0: never mounted)
    gen,                \* state of the mounted GenerateView
    edit,               \* state of the mounted MagicEditView
    analyze,            \* state of the mounted AnalyzeView
    chat,               \* state of the mounted ChatView
    selectedItem,       \* state of the mounted GalleryView: Null or Some(item)
    abortControllerRef, \* per view instance: 0 (null) or the request whose controller it holds
    requests,           \* calls to the external API that have not settled
    issued,             \* number of calls issued so far
    cancelled,          \* history: requests whose controller handleStop aborted
    noops,              \* history: handlers that have returned at their first line
    img,                \* compressImage: size of the decoded image, Null before a run
    canvas,             \* compressImage: size of the canvas it draws to, Null before it ran
    panZoom             \* state of a PanZoomImage / ZoomableImage

vars == <<build, localStorageKey, userApiKey, showSettingsModal, activeTab, galleryItems,
          sharedPrompt, submitted, inst, gen, edit, analyze, chat, selectedItem,
          abortControllerRef, requests, issued, cancelled, noops, img, canvas, panZoom>>

\* what neither compressImage nor the pan/zoom component writes
outsideWidgets == <<build, localStorageKey, userApiKey, showSettingsModal, activeTab,
                    galleryItems, sharedPrompt, submitted, inst, gen, edit, analyze, chat,
                    selectedItem, abortControllerRef, requests, issued, cancelled, noops>>

\* the state of the image helpers, which no handler of a view touches
widgets == <<img, canvas, panZoom>>

appVars == <<localStorageKey, userApiKey, showSettingsModal, activeTab, sharedPrompt,
             submitted, inst>>

\* what no handler of GenerateView writes
outsideGenerate == <<build, appVars, edit, analyze, chat, selectedItem>>

\* what no handler of MagicEditView writes
outsideEdit == <<build, appVars, gen, analyze, chat, selectedItem, abortControllerRef,
                 cancelled>>

\* the studio views are mounted iff App does not return the LoginScreen
Mounted == userApiKey # <<>>

\* the component instance that issued r is still the mounted one
Live(r) == Mounted /\ r.inst = inst

\* the view of a tab is mounted and its wrapper has class 'block', not 'hidden'
Shown(tab) == Mounted /\ activeTab = tab

GenerateViewInit ==
    [prompt |-> <<>>, loading |-> FALSE, generatedImage |-> Null, errorMsg |-> Null,
     cooldown |-> 0, modelType |-> "flash",
     refImages |-> <<>>, refPreviews |-> <<>>, lockFace |-> FALSE]

\* localStorage.getItem(k) || fallback
StoredOr(stored, fallback) ==
    IF stored = Null \/ stored[1] = <<>> THEN fallback ELSE stored[1]

InitialKey(b, stored) ==
    StoredOr(stored, IF b = "index" THEN DefaultKey ELSE <<>>)

EditViewInit ==
    [image |-> Null, imagePreview |-> Null, prompt |-> <<>>, loading |-> FALSE,
     resultImage |-> Null, errorMsg |-> Null, cooldown |-> 0]

AnalyzeViewInit ==
    [file |-> Null, filePreview |-> Null, prompt |-> <<>>, loading |-> FALSE, analysis |-> <<>>]

\* ai.chats.create(...): a session with an empty history. A session keeps the turns
\* made in it and sends them along with every message; a turn is written here as the
\* text of its user message
NewChatSession == Some(<<>>)

\* chatSession.current is assigned a new session: the streams of the replaced session
\* go on, but what they record goes to the replaced session
Detach(reqs) == {IF r.kind = "chat" THEN [r EXCEPT !.detached = TRUE] ELSE r : r \in reqs}

\* the session that sent r records the turn when the stream of its reply has ended
Recorded(session, r) == IF r.detached THEN session ELSE Some(Append(session[1], r.prompt))

\* ChatView after its mount effect ran: the session exists iff apiKey is set
ChatViewInit(apiKey) ==
    [messages |-> <<>>, input |-> <<>>, isTyping |-> FALSE,
     chatSession |-> IF apiKey # <<>> THEN NewChatSession ELSE Null]

\* PanZoomImage / ZoomableImage useState initial values
PanZoomInit ==
    [scale |-> ScaleOne, position |-> <<0, 0>>, isDragging |-> FALSE, startPos |-> <<0, 0>>,
     seen |-> [scale |-> ScaleOne, position |-> <<0, 0>>, isDragging |-> FALSE,
               startPos |-> <<0, 0>>]]

InitApp ==
    /\ build \in Builds
    /\ localStorageKey \in {Null, Some(KeyA)}
    /\ userApiKey = InitialKey(build, localStorageKey)
    /\ showSettingsModal = FALSE
    /\ activeTab = "generate"
    /\ galleryItems = <<>>
    /\ sharedPrompt = <<>>
    /\ submitted = FALSE
    /\ inst = IF userApiKey # <<>> THEN 1 ELSE 0
    /\ gen = GenerateViewInit
    /\ edit = EditViewInit
    /\ analyze = AnalyzeViewInit
    /\ chat = ChatViewInit(userApiKey)
    /\ selectedItem = Null
    /\ abortControllerRef = [i \in 1..MaxMounts |-> 0]
    /\ requests = {}
    /\ issued = 0
    /\ cancelled = {}
    /\ noops = {}
    /\ panZoom = PanZoomInit
    /\ canvas = Null

Init == InitApp /\ img = Null

\* ----------------------------------------------------------------- App
\* the submit buttons of LoginScreen and ApiKeyModal
KeyAccepted(key) == Trim(key) # <<>> /\ Len(key) >= MinKeyLen

\* every view starts from its initial state when it is mounted or unmounted
ViewsReset ==
    /\ gen' = GenerateViewInit
    /\ edit' = EditViewInit
    /\ analyze' = AnalyzeViewInit
    /\ chat' = ChatViewInit(userApiKey')
    /\ selectedItem' = Null

\* App.saveApiKey, called by LoginScreen (onLogin): the views mount
Login(key) ==
    /\ ~Mounted
    /\ KeyAccepted(key)
    /\ inst < MaxMounts
    /\ localStorageKey' = Some(key)
    /\ userApiKey' = key
    /\ showSettingsModal' = FALSE
    /\ submitted' = TRUE
    /\ inst' = inst + 1
    /\ ViewsReset
    /\ UNCHANGED <<build, activeTab, galleryItems, sharedPrompt, abortControllerRef,
                   requests, issued, cancelled, noops>>
    /\ UNCHANGED widgets

\* App.handleLogout: App returns the LoginScreen, the views unmount
HandleLogout ==
    /\ Mounted
    /\ localStorageKey' = Null
    /\ userApiKey' = <<>>
    /\ ViewsReset
    /\ UNCHANGED <<build, showSettingsModal, activeTab, galleryItems, sharedPrompt,
                   submitted, inst, abortControllerRef, requests, issued, cancelled, noops>>
    /\ UNCHANGED widgets

\* ------------------------------------------------------------ GenerateView
\* URL.createObjectURL(file)
CreateObjectURL(f) == <<"blob:", f.name>>

\* files the user can pick in the reference input: an image, and a file of
\* an image type that the browser cannot decode
RefFiles ==
    { [name |-> "face.png", type |-> "image/png", decodes |-> TRUE],
      [name |-> "torn.png", type |-> "image/png", decodes |-> FALSE] }

\* e.target.files of the reference input (multiple): one to three files
RefUploads ==
    { <<f>> : f \in RefFiles } \cup
    { <<f1, f2>> : f1 \in RefFiles, f2 \in RefFiles } \cup
    { <<f, f, f>> : f \in RefFiles }

\* a slice that keeps every element
SliceAll(s, end) == s

\* Array.prototype.slice(0, end) for end >= 0
Slice(s, end) == SubSeq(s, 1, IF end < Len(s) THEN end ELSE Len(s))

\* prev.filter((_, i) => i !== index), index counted from 1
FilterIndex(s, index) ==
    [i \in 1..(Len(s) - (IF index \in 1..Len(s) THEN 1 ELSE 0)) |->
        IF i < index THEN s[i] ELSE s[i + 1]]

\* a loop that pushes nothing
RefPartsNone(b, files) == <<>>

\* the parts pushed by the loop over refImages.  index.tsx compresses the
\* image (the promise rejects when it cannot be decoded) and skips a file
\* whose promise rejected; part_000 reads the bytes of every file.
RECURSIVE RefParts(_, _)
RefParts(b, files) ==
    IF files = <<>> THEN <<>>
    ELSE LET f == Head(files)
         IN  (IF b = "index"
              THEN IF f.decodes THEN <<ImagePart("image/jpeg", f.name)>> ELSE <<>>
              ELSE <<ImagePart(f.type, f.name)>>)
             \o RefParts(b, Tail(files))

\* constructedPrompt.  The style settings stay at their initial values
\* ('None', 'Auto'), so nothing is appended; index.tsx prefixes the prompt in
\* its flash strategy when a reference is attached, part_000 when a reference
\* is attached and lockFace is set.
ConstructedPrompt(b, g) ==
    IF g.refImages = <<>> THEN g.prompt
    ELSE IF b = "index"
    THEN IF g.modelType # "flash" THEN g.prompt
         ELSE IF g.lockFace THEN <<"Strictly maintain facial structure. ">> \o g.prompt
         ELSE <<"Use reference as style guide. ">> \o g.prompt
    ELSE IF g.lockFace
    THEN <<"Strictly maintain 100% facial identity. ">> \o g.prompt
    ELSE g.prompt

\* contents.parts of the generateContent call; the Imagen strategy of
\* index.tsx calls generateImages with the prompt alone
RequestParts(b, g) ==
    IF g.modelType = "imagen" THEN <<>>
    ELSE Append(RefParts(b, g.refImages), TextPart(ConstructedPrompt(b, g)))

\* the Generate button is rendered (no cooldown button in its place) and enabled
GenerateButtonEnabled ==
    /\ build = "index" => gen.cooldown = 0
    /\ ~gen.loading
    /\ gen.prompt # <<>>

\* a first line that tests the prompt without trimming it
GenerateReturnsEarlyUntrimmed(b, g) ==
    g.prompt = <<>> \/ (b = "index" /\ g.cooldown > 0)

\* first line of handleGenerate: TRUE when it returns at once
GenerateReturnsEarly(b, g) ==
    Trim(g.prompt) = <<>> \/ (b = "index" /\ g.cooldown > 0)

\* a call to the external API, with the values its handler captured
NewRequest(kind, loading, prompt, modelType) ==
    [id |-> issued + 1, kind |-> kind, inst |-> inst, loading |-> loading,
     prompt |-> prompt, modelType |-> modelType, botMsgId |-> "", fullResponse |-> <<>>,
     parts |-> <<>>, detached |-> FALSE]

\* handleGenerate up to its first await
HandleGenerate ==
    /\ Shown("generate")
    /\ GenerateButtonEnabled
    /\ IF GenerateReturnsEarly(build, gen)
       THEN /\ noops' = noops \cup {"handleGenerate"}
            /\ UNCHANGED <<gen, abortControllerRef, requests, issued>>
       ELSE /\ issued < MaxRequests
            /\ issued' = issued + 1
            /\ UNCHANGED noops
            /\ IF userApiKey = <<>>
               THEN \* getAI throws: catch reads the captured loading, then finally
                    /\ gen' = [gen EXCEPT !.generatedImage = Null,
                                          !.errorMsg = IF gen.loading
                                                       THEN Some(GenerateError(build,
                                                                Text("API Key is missing")).msg)
                                                       ELSE Null,
                                          !.loading = FALSE]
                    /\ abortControllerRef' = [abortControllerRef EXCEPT ![inst] = 0]
                    /\ UNCHANGED requests
               ELSE /\ gen' = [gen EXCEPT !.loading = TRUE, !.generatedImage = Null,
                                          !.errorMsg = Null]
                    /\ abortControllerRef' = [abortControllerRef EXCEPT ![inst] = issued + 1]
                    /\ requests' = requests \cup
                          {[NewRequest("generate", gen.loading,
                                       ConstructedPrompt(build, gen), gen.modelType)
                               EXCEPT !.parts = RequestParts(build, gen)]}
    /\ UNCHANGED <<outsideGenerate, galleryItems, cancelled>>
    /\ UNCHANGED widgets

\* handleStop: the Cancel button of the LoadingOverlay (and the stop button of part_000)
HandleStop ==
    /\ Shown("generate")
    /\ gen.loading
    /\ cancelled' = IF abortControllerRef[inst] # 0
                    THEN cancelled \cup {abortControllerRef[inst]}
                    ELSE cancelled
    /\ abortControllerRef' = [abortControllerRef EXCEPT ![inst] = 0]
    /\ gen' = [gen EXCEPT !.loading = FALSE]
    /\ UNCHANGED <<outsideGenerate, galleryItems, requests, issued, noops>>
    /\ UNCHANGED widgets

Throw(message) == [kind |-> "throw", url |-> Null, message |-> message]
Image(url) == [kind |-> "image", url |-> url, message |-> <<>>]
Return == [kind |-> "return", url |-> Null, message |-> <<>>]

OrDefault(s, d) == IF s = "" THEN d ELSE s

\* index.tsx, flash strategy, after the response passed the abort check
FlashOutcomeIndex(resp) ==
    IF resp.candidates = <<>> THEN Throw(Text("No response from AI."))
    ELSE IF resp.candidates[1].finishReason = "SAFETY"
    THEN Throw(Text("Safety Blocked. Try a different prompt."))
    ELSE LET parts == resp.candidates[1].parts
             k == FirstInline(parts, 1)
             rejectionText == TextBefore(parts, 1, k)
         IN  IF k # 0
             THEN Image(DataUrl(OrDefault(parts[k].mimeType, "image/jpeg"), parts[k].data))
             ELSE IF rejectionText # <<>>
             THEN Throw(<<"Model Refused:">> \o rejectionText)
             ELSE Throw(Text("Generation failed. Try switching models."))

\* part_000, after the response passed the abort check
FlashOutcomePart(resp) ==
    IF resp.candidates = <<>>
    THEN Throw(Text("No candidates returned. The request may have been blocked."))
    ELSE IF resp.candidates[1].finishReason = "SAFETY"
    THEN Throw(Text("Generation blocked by safety filters."))
    ELSE IF resp.candidates[1].finishReason = "OTHER"
    THEN Throw(Text("Generation failed (FinishReason: OTHER)."))
    ELSE LET parts == resp.candidates[1].parts
             k == FirstInline(parts, 1)
         IN  IF k # 0
             THEN Image(DataUrl(OrDefault(parts[k].mimeType, "image/png"), parts[k].data))
             ELSE Throw(Text("Model response success, but no image data found in response."))

\* if (!loading && !abortControllerRef.current) return;
\* loading is the value the handler captured, ref the live value of the ref
DropsResponse(capturedLoading, ref) == ~capturedLoading /\ ref = 0

\* index.tsx, Imagen strategy: no abort check
ImagenOutcome(resp) ==
    IF resp.rejected THEN Throw(resp.message)
    ELSE IF resp.imageBytes # "" THEN Image(DataUrl("image/jpeg", resp.imageBytes))
    ELSE Throw(Text("Imagen returned no images."))

\* what the rest of handleGenerate's try block does with the settled call
GenerateOutcome(b, r, ref, resp) ==
    IF r.modelType = "imagen" THEN ImagenOutcome(resp)
    ELSE IF resp.rejected THEN Throw(resp.message)
    ELSE IF DropsResponse(r.loading, ref) THEN Return
    ELSE IF b = "index" THEN FlashOutcomeIndex(resp)
    ELSE FlashOutcomePart(resp)

\* catch (error) { if (loading) { ... setErrorMsg(msg) } }
CatchShowsError(capturedLoading) == capturedLoading

\* a gallery prompt read from the prompt field when the response arrives
LivePrompt(r, live) == live

\* prompt: constructedPrompt (handleGenerate), prompt: prompt (handleEdit):
\* the variable of the closure of the call that sent r, not the live field
CapturedPrompt(r, live) == r.prompt

GalleryItem(id, type, src, prompt) ==
    [id |-> id, type |-> type, src |-> src, prompt |-> prompt]

\* App.addToGallery
AddToGallery(items, item) == Append(items, item)

GenerateResponsesOf(r) ==
    IF r.modelType = "imagen" THEN ImagenResponses ELSE ContentResponses

\* the awaited call of handleGenerate settles: rest of try, catch, finally
GenerateResponse(r, resp) ==
    /\ r \in requests
    /\ r.kind = "generate"
    /\ resp \in GenerateResponsesOf(r)
    /\ LET out == GenerateOutcome(build, r, abortControllerRef[r.inst], resp)
           err == GenerateError(build, out.message)
           shown == out.kind = "throw" /\ CatchShowsError(r.loading)
       IN  /\ gen' = IF ~Live(r) THEN gen
                     ELSE [gen EXCEPT
                             !.generatedImage = IF out.kind = "image" THEN Some(out.url) ELSE @,
                             !.errorMsg = IF shown THEN Some(err.msg) ELSE @,
                             !.cooldown = IF shown /\ err.cooldown THEN CooldownSeconds ELSE @,
                             !.loading = FALSE]
           /\ IF out.kind = "image"
              THEN \E id \in IdValues :
                     galleryItems' = AddToGallery(galleryItems,
                                        GalleryItem(id, "generated", out.url,
                                                    CapturedPrompt(r, gen.prompt)))
              ELSE UNCHANGED galleryItems
    /\ abortControllerRef' = [abortControllerRef EXCEPT ![r.inst] = 0]
    /\ requests' = requests \ {r}
    /\ UNCHANGED <<outsideGenerate, issued, cancelled, noops>>
    /\ UNCHANGED widgets

\* handleEnhancePrompt up to its await (index.tsx only; its button is never disabled)
HandleEnhancePrompt ==
    /\ Shown("generate")
    /\ build = "index"
    /\ IF Trim(gen.prompt) = <<>>
       THEN /\ noops' = noops \cup {"handleEnhancePrompt"}
            /\ UNCHANGED <<gen, requests, issued>>
       ELSE /\ issued < MaxRequests
            /\ issued' = issued + 1
            /\ UNCHANGED noops
            /\ IF userApiKey = <<>>
               THEN /\ gen' = [gen EXCEPT !.errorMsg = Some(Text("Failed to enhance prompt.")),
                                          !.loading = FALSE]
                    /\ UNCHANGED requests
               ELSE /\ gen' = [gen EXCEPT !.loading = TRUE]
                    /\ requests' = requests \cup {NewRequest("enhance", gen.loading, gen.prompt,
                                                        "flash")}
    /\ UNCHANGED <<outsideGenerate, galleryItems, abortControllerRef, cancelled>>
    /\ UNCHANGED widgets

EnhanceResponses ==
    { Rejected(<<"network", "error">>), ResolvedText(<<>>), ResolvedText(<<" ", "b", " ">>) }

\* a setPrompt that keeps the response text as it came
EnhancedPromptUntrimmed(old, resp) ==
    IF ~resp.rejected /\ resp.text # <<>> THEN resp.text ELSE old

\* if (response.text) setPrompt(response.text.trim())
EnhancedPrompt(old, resp) ==
    IF ~resp.rejected /\ resp.text # <<>> THEN Trim(resp.text) ELSE old

\* the awaited call of handleEnhancePrompt settles
EnhanceResponse(r, resp) ==
    /\ r \in requests
    /\ r.kind = "enhance"
    /\ resp \in EnhanceResponses
    /\ gen' = IF ~Live(r) THEN gen
              ELSE [gen EXCEPT
                      !.prompt = EnhancedPrompt(@, resp),
                      !.errorMsg = IF resp.rejected
                                   THEN Some(Text("Failed to enhance prompt.")) ELSE @,
                      !.loading = FALSE]
    /\ requests' = requests \ {r}
    /\ UNCHANGED <<outsideGenerate, galleryItems, abortControllerRef, issued, cancelled,
                   noops>>
    /\ UNCHANGED widgets

\* the prompt textarea (and the Clear control of part_000's PromptArea)
GenerateSetPrompt(p) ==
    /\ Shown("generate")
    /\ p \in PromptInputs
    /\ gen' = [gen EXCEPT !.prompt = p]
    /\ UNCHANGED <<outsideGenerate, galleryItems, abortControllerRef, requests, issued,
                   cancelled, noops>>
    /\ UNCHANGED widgets

\* the model menu of index.tsx
SetModelType(m) ==
    /\ Shown("generate")
    /\ build = "index"
    /\ m \in {"flash", "imagen"}
    /\ gen' = [gen EXCEPT !.modelType = m]
    /\ UNCHANGED <<outsideGenerate, galleryItems, abortControllerRef, requests, issued,
                   cancelled, noops>>
    /\ UNCHANGED widgets

\* the reference section is rendered (index.tsx: for the flash model only)
RefSectionShown == Shown("generate") /\ (build = "index" => gen.modelType = "flash")

\* handleRefUpload; its input is rendered while refImages.length < 4
HandleRefUpload(newFiles) ==
    /\ RefSectionShown
    /\ Len(gen.refImages) < MaxRefImages
    /\ newFiles \in RefUploads
    /\ LET remainingSlots == MaxRefImages - Len(gen.refImages)
           filesToAdd == Slice(newFiles, remainingSlots)
           newPreviews == [i \in 1..Len(filesToAdd) |-> CreateObjectURL(filesToAdd[i])]
       IN  gen' = IF Len(filesToAdd) > 0
                  THEN [gen EXCEPT !.refImages = @ \o filesToAdd,
                                   !.refPreviews = @ \o newPreviews,
                                   !.lockFace = FALSE]
                  ELSE gen
    /\ UNCHANGED <<outsideGenerate, galleryItems, abortControllerRef, requests, issued,
                   cancelled, noops>>
    /\ UNCHANGED widgets

\* removeRefImage: the button over the preview at position index
RemoveRefImage(index) ==
    /\ RefSectionShown
    /\ index \in 1..Len(gen.refPreviews)
    /\ gen' = [gen EXCEPT !.refImages = FilterIndex(@, index),
                          !.refPreviews = FilterIndex(@, index)]
    /\ UNCHANGED <<outsideGenerate, galleryItems, abortControllerRef, requests, issued,
                   cancelled, noops>>
    /\ UNCHANGED widgets

\* the lock button under the previews: setLockFace(!lockFace)
ToggleLockFace ==
    /\ RefSectionShown
    /\ Len(gen.refImages) > 0
    /\ gen' = [gen EXCEPT !.lockFace = ~@]
    /\ UNCHANGED <<outsideGenerate, galleryItems, abortControllerRef, requests, issued,
                   cancelled, noops>>
    /\ UNCHANGED widgets

\* the X button of the result toolbar, under the LoadingOverlay while loading
GenerateClear ==
    /\ Shown("generate")
    /\ ~gen.loading
    /\ build = "part_000" => gen.generatedImage # Null
    /\ gen' = [gen EXCEPT !.generatedImage = Null,
                          !.errorMsg = IF build = "index" THEN Null ELSE @]
    /\ UNCHANGED <<outsideGenerate, galleryItems, abortControllerRef, requests, issued,
                   cancelled, noops>>
    /\ UNCHANGED widgets

\* the Dismiss button of the error panel
GenerateDismiss ==
    /\ Shown("generate")
    /\ gen.errorMsg # Null
    /\ ~gen.loading
    /\ gen' = [gen EXCEPT !.errorMsg = Null]
    /\ UNCHANGED <<outsideGenerate, galleryItems, abortControllerRef, requests, issued,
                   cancelled, noops>>
    /\ UNCHANGED widgets

\* ----------------------------------------------------------- MagicEditView
\* files the user can pick in a file input
FileInputs ==
    { [name |-> "photo.png", type |-> "image/png"],
      [name |-> "notes.txt", type |-> "text/plain"] }

\* handleImageUpload
HandleImageUpload(f) ==
    /\ Shown("edit")
    /\ f \in FileInputs
    /\ edit' = [edit EXCEPT !.image = Some(f), !.imagePreview = Some(CreateObjectURL(f)),
                            !.resultImage = Null, !.errorMsg = Null]
    /\ UNCHANGED <<outsideEdit, galleryItems, requests, issued, noops>>
    /\ UNCHANGED widgets

\* the instruction textarea and the preset buttons (setPrompt)
EditSetPrompt(p) ==
    /\ Shown("edit")
    /\ p \in PromptInputs
    /\ edit' = [edit EXCEPT !.prompt = p]
    /\ UNCHANGED <<outsideEdit, galleryItems, requests, issued, noops>>
    /\ UNCHANGED widgets

\* the Apply Magic button is rendered (no cooldown button in its place) and enabled
EditButtonEnabled ==
    /\ build = "index" => edit.cooldown = 0
    /\ ~edit.loading
    /\ edit.image # Null
    /\ edit.prompt # <<>>

\* a first line that does not test the cooldown
EditReturnsEarlyNoCooldown(b, e) ==
    e.image = Null \/ Trim(e.prompt) = <<>>

\* first line of handleEdit: TRUE when it returns at once
EditReturnsEarly(b, e) ==
    e.image = Null \/ Trim(e.prompt) = <<>> \/ (b = "index" /\ e.cooldown > 0)

\* handleEdit up to its awaits (encoding the file, then the call to the API)
HandleEdit ==
    /\ Shown("edit")
    /\ EditButtonEnabled
    /\ IF EditReturnsEarly(build, edit)
       THEN /\ noops' = noops \cup {"handleEdit"}
            /\ UNCHANGED <<edit, requests, issued>>
       ELSE /\ issued < MaxRequests
            /\ issued' = issued + 1
            /\ UNCHANGED noops
            /\ edit' = [edit EXCEPT !.loading = TRUE, !.resultImage = Null, !.errorMsg = Null]
            /\ requests' = requests \cup {NewRequest("edit", edit.loading, edit.prompt, "flash")}
    /\ UNCHANGED <<outsideEdit, galleryItems>>
    /\ UNCHANGED widgets

\* index.tsx: the rest of handleEdit's try block; the url has no default mime type
EditOutcomeIndex(resp) ==
    IF resp.rejected THEN Throw(resp.message)
    ELSE IF resp.candidates = <<>> THEN Throw(Text("No response."))
    ELSE IF resp.candidates[1].finishReason = "SAFETY"
    THEN Throw(Text("Safety Block blocked the edit."))
    ELSE LET parts == resp.candidates[1].parts
             k == FirstInline(parts, 1)
             rejectionText == TextBefore(parts, 1, k)
         IN  IF k # 0
             THEN Image(DataUrl(OrDefault(parts[k].mimeType, "undefined"), parts[k].data))
             ELSE IF rejectionText # <<>>
             THEN Throw(<<"AI Refused Edit:">> \o rejectionText)
             ELSE Throw(Text("No image returned. Try a clearer prompt."))

\* part_000 without its `if (!found) throw`
EditOutcomePartSilent(resp) ==
    IF resp.rejected THEN Throw(resp.message)
    ELSE IF resp.candidates = <<>> THEN Throw(Text("No candidates returned."))
    ELSE IF resp.candidates[1].finishReason = "SAFETY"
    THEN Throw(Text("Edit blocked by safety filters."))
    ELSE LET parts == resp.candidates[1].parts
             k == FirstInline(parts, 1)
         IN  IF k # 0
             THEN Image(DataUrl(OrDefault(parts[k].mimeType, "image/png"), parts[k].data))
             ELSE Return

\* part_000: the rest of handleEdit's try block
EditOutcomePart(resp) ==
    IF resp.rejected THEN Throw(resp.message)
    ELSE IF resp.candidates = <<>> THEN Throw(Text("No candidates returned."))
    ELSE IF resp.candidates[1].finishReason = "SAFETY"
    THEN Throw(Text("Edit blocked by safety filters."))
    ELSE LET parts == resp.candidates[1].parts
             k == FirstInline(parts, 1)
         IN  IF k # 0
             THEN Image(DataUrl(OrDefault(parts[k].mimeType, "image/png"), parts[k].data))
             ELSE Throw(Text("No image data in response."))

\* a loop that keeps the last image part instead of breaking at the first
EditOutcomeLastImage(b, resp) ==
    LET out == IF b = "index" THEN EditOutcomeIndex(resp) ELSE EditOutcomePart(resp)
    IN  IF out.kind # "image" THEN out
        ELSE LET parts == resp.candidates[1].parts
             IN  Image(DataUrl("image/png", parts[Len(parts)].data))

EditOutcome(b, resp) ==
    IF b = "index" THEN EditOutcomeIndex(resp) ELSE EditOutcomePart(resp)

\* MagicEditView catch of index.tsx
EditErrorIndex(message) ==
    LET msg == MessageOr(message, Text("Failed."))
        lowerMsg == ToLowerCase(msg)
    IN  IF Includes(lowerMsg, "429")
        THEN [msg |-> Text("Quota Exceeded. Cooldown 60s."), cooldown |-> TRUE]
        ELSE IF Includes(lowerMsg, "403") \/ Includes(lowerMsg, "billing")
        THEN [msg |-> Text("Access Denied: Check Billing or Domain Restrictions on API Key."),
              cooldown |-> FALSE]
        ELSE [msg |-> msg, cooldown |-> FALSE]

\* MagicEditView catch of part_000
EditErrorPart(message) ==
    LET m0 == MessageOr(message, Text("Failed to edit image."))
        m1 == IF Includes(m0, "400")
              THEN <<"400", "Bad Request: Check API Key or Prompt.">>
              ELSE m0
        m2 == IF Includes(m1, "403")
              THEN <<"403", "Forbidden: API Key invalid for this model.">>
              ELSE m1
    IN  [msg |-> m2, cooldown |-> FALSE]

EditError(b, message) ==
    IF b = "index" THEN EditErrorIndex(message) ELSE EditErrorPart(message)

\* the awaited work of handleEdit settles (a file that cannot be encoded rejects
\* like the call does): rest of try, catch, finally
EditResponse(r, resp) ==
    /\ r \in requests
    /\ r.kind = "edit"
    /\ resp \in ContentResponses
    /\ LET out == EditOutcome(build, resp)
           err == EditError(build, out.message)
       IN  /\ edit' = IF ~Live(r) THEN edit
                      ELSE [edit EXCEPT
                              !.resultImage = IF out.kind = "image" THEN Some(out.url) ELSE @,
                              !.errorMsg = IF out.kind = "throw" THEN Some(err.msg) ELSE @,
                              !.cooldown = IF out.kind = "throw" /\ err.cooldown
                                           THEN CooldownSeconds ELSE @,
                              !.loading = FALSE]
           /\ IF out.kind = "image"
              THEN \E id \in IdValues :
                     galleryItems' = AddToGallery(galleryItems,
                                        GalleryItem(id, "edited", out.url,
                                                    CapturedPrompt(r, edit.prompt)))
              ELSE UNCHANGED galleryItems
    /\ requests' = requests \ {r}
    /\ UNCHANGED <<outsideEdit, issued, noops>>
    /\ UNCHANGED widgets

\* an interval that takes two seconds off at a time
EditTickTwice ==
    /\ Mounted
    /\ edit.cooldown > 0
    /\ edit' = [edit EXCEPT !.cooldown = @ - 2]
    /\ UNCHANGED <<outsideEdit, galleryItems, requests, issued, noops>>
    /\ UNCHANGED widgets

\* the interval of the cooldown effect: setCooldown(prev => prev - 1)
EditTick ==
    /\ Mounted
    /\ edit.cooldown > 0
    /\ edit' = [edit EXCEPT !.cooldown = @ - 1]
    /\ UNCHANGED <<outsideEdit, galleryItems, requests, issued, noops>>
    /\ UNCHANGED widgets

\* the X / Dismiss button of the error panel
EditDismiss ==
    /\ Shown("edit")
    /\ edit.errorMsg # Null
    /\ ~edit.loading
    /\ edit' = [edit EXCEPT !.errorMsg = Null]
    /\ UNCHANGED <<outsideEdit, galleryItems, requests, issued, noops>>
    /\ UNCHANGED widgets

\* ------------------------------------------------------------- AnalyzeView
\* what no handler of AnalyzeView writes
outsideAnalyze == <<build, localStorageKey, userApiKey, showSettingsModal, submitted, inst,
                    edit, chat, selectedItem, galleryItems, abortControllerRef, cancelled>>

\* setFilePreview of handleFileUpload
FilePreview(b, f, old) ==
    LET kind == IF f.type = "image/png" THEN "image" ELSE "text"
    IN  IF b = "index" THEN Some([type |-> kind, url |-> CreateObjectURL(f)])
        ELSE IF kind \in {"image", "video", "audio"}
        THEN Some([type |-> kind, url |-> CreateObjectURL(f)])
        ELSE old

\* handleFileUpload
HandleFileUpload(f) ==
    /\ Shown("analyze")
    /\ f \in FileInputs
    /\ analyze' = [analyze EXCEPT !.file = Some(f),
                                  !.filePreview = FilePreview(build, f, @),
                                  !.analysis = <<>>]
    /\ UNCHANGED <<outsideAnalyze, activeTab, sharedPrompt, gen, requests, issued, noops>>
    /\ UNCHANGED widgets

\* the Remove Media / Remove File button, rendered with the preview
RemoveMedia ==
    /\ Shown("analyze")
    /\ analyze.filePreview # Null
    /\ analyze' = [analyze EXCEPT !.file = Null, !.filePreview = Null]
    /\ UNCHANGED <<outsideAnalyze, activeTab, sharedPrompt, gen, requests, issued, noops>>
    /\ UNCHANGED widgets

AnalyzeSetPrompt(p) ==
    /\ Shown("analyze")
    /\ p \in PromptInputs
    /\ analyze' = [analyze EXCEPT !.prompt = p]
    /\ UNCHANGED <<outsideAnalyze, activeTab, sharedPrompt, gen, requests, issued, noops>>
    /\ UNCHANGED widgets

\* handleAnalyze up to its awaits
HandleAnalyze ==
    /\ Shown("analyze")
    /\ ~analyze.loading
    /\ analyze.file # Null
    /\ issued < MaxRequests
    /\ issued' = issued + 1
    /\ analyze' = [analyze EXCEPT !.loading = TRUE,
                                  !.analysis = IF build = "index" THEN @ ELSE <<>>]
    /\ requests' = requests \cup {NewRequest("analyze", analyze.loading, analyze.prompt, "flash")}
    /\ UNCHANGED <<outsideAnalyze, activeTab, sharedPrompt, gen, noops>>
    /\ UNCHANGED widgets

AnalysisText == <<"a", " ", "c", "a", "t">>

AnalyzeResponses ==
    { Rejected(<<"network", "error">>), ResolvedText(<<>>), ResolvedText(AnalysisText) }

\* setAnalysis(...) of try and of catch
AnalysisOf(b, resp) ==
    IF resp.rejected
    THEN IF b = "index" THEN Text("Error.")
         ELSE Text("Error analyzing the file. Please check your API key.")
    ELSE IF resp.text # <<>> THEN resp.text
    ELSE IF b = "index" THEN Text("No analysis.") ELSE Text("No analysis generated.")

\* the awaited work of handleAnalyze settles
AnalyzeResponse(r, resp) ==
    /\ r \in requests
    /\ r.kind = "analyze"
    /\ resp \in AnalyzeResponses
    /\ analyze' = IF ~Live(r) THEN analyze
                  ELSE [analyze EXCEPT !.analysis = AnalysisOf(build, resp), !.loading = FALSE]
    /\ requests' = requests \ {r}
    /\ UNCHANGED <<outsideAnalyze, activeTab, sharedPrompt, gen, issued, noops>>
    /\ UNCHANGED widgets

\* an effect that copies externalPrompt without testing it
ExternalPromptEffectUnguarded(g, external) == [g EXCEPT !.prompt = external]

\* GenerateView's effect on externalPrompt; its dependency onPromptUsed is a new
\* function at every render of App, so it runs after each of them
ExternalPromptEffect(g, external) ==
    IF external # <<>> THEN [g EXCEPT !.prompt = external] ELSE g

PromptKept(external) == external

\* sharedPrompt after that effect: onPromptUsed() is setSharedPrompt('')
PromptUsed(external) == IF external # <<>> THEN <<>> ELSE external

\* App.handleGenerateFromAnalysis (the button under the analysis) and the
\* effect of GenerateView that the render it causes runs
HandleGenerateFromAnalysis ==
    /\ Shown("analyze")
    /\ analyze.analysis # <<>>
    /\ activeTab' = "generate"
    /\ gen' = ExternalPromptEffect(gen, analyze.analysis)
    /\ sharedPrompt' = PromptUsed(analyze.analysis)
    /\ UNCHANGED <<outsideAnalyze, analyze, requests, issued, noops>>
    /\ UNCHANGED widgets

\* ----------------------------------------------------------------- ChatView
\* what no handler of ChatView writes
outsideChat == <<build, appVars, gen, edit, analyze, selectedItem, galleryItems,
                 abortControllerRef, cancelled>>

ChatInputs == { <<>>, <<" ">>, <<"h", "i">> }
ChunkTexts == { <<>>, <<"ok">> }

ChatMessage(id, role, text) == [id |-> id, role |-> role, text |-> text]

ChatErrorText(b) ==
    IF b = "index" THEN Text("Error connecting to AI.")
    ELSE Text("Sorry, I encountered an error. Please check your API key.")

ChatSetInput(t) ==
    /\ Shown("chat")
    /\ t \in ChatInputs
    /\ chat' = [chat EXCEPT !.input = t]
    /\ UNCHANGED <<outsideChat, requests, issued, noops>>
    /\ UNCHANGED widgets

\* handleSend up to its await; the Enter key calls it whatever the button's state
HandleSend ==
    /\ Shown("chat")
    /\ IF Trim(chat.input) = <<>> \/ chat.isTyping
       THEN /\ noops' = noops \cup {"handleSend"}
            /\ UNCHANGED <<chat, requests, issued>>
       ELSE /\ issued < MaxRequests
            /\ issued' = issued + 1
            /\ UNCHANGED noops
            /\ \E id \in IdValues :
                 chat' = [chat EXCEPT
                            !.messages = Append(@, ChatMessage(id, "user", chat.input)),
                            !.input = <<>>,
                            !.isTyping = TRUE,
                            !.chatSession = IF @ = Null THEN NewChatSession ELSE @]
            /\ requests' = requests \cup {NewRequest("chat", chat.isTyping, chat.input, "flash")}
    /\ UNCHANGED outsideChat
    /\ UNCHANGED widgets

\* sendMessageStream resolves: the empty message of the model is appended
ChatStreamStart(r) ==
    /\ r \in requests
    /\ r.kind = "chat"
    /\ r.botMsgId = ""
    /\ \E id \in IdValues :
         /\ chat' = IF ~Live(r) THEN chat
                    ELSE [chat EXCEPT !.messages = Append(@, ChatMessage(id, "model", <<>>))]
         /\ requests' = (requests \ {r}) \cup {[r EXCEPT !.botMsgId = id]}
    /\ UNCHANGED <<outsideChat, issued, noops>>
    /\ UNCHANGED widgets

\* p.map(m => m.id === botMsgId ? { ...m, text: fullResponse } : m)
WithText(messages, botMsgId, fullResponse) ==
    [i \in 1..Len(messages) |->
        IF messages[i].id = botMsgId THEN [messages[i] EXCEPT !.text = fullResponse]
        ELSE messages[i]]

\* one chunk of the stream
ChatChunk(r, text) ==
    /\ r \in requests
    /\ r.kind = "chat"
    /\ r.botMsgId # ""
    /\ text \in ChunkTexts
    /\ Len(r.fullResponse) < MaxChunks
    /\ LET full == r.fullResponse \o text
       IN  /\ chat' = IF ~Live(r) \/ text = <<>> THEN chat
                      ELSE [chat EXCEPT !.messages = WithText(@, r.botMsgId, full)]
           /\ requests' = (requests \ {r}) \cup {[r EXCEPT !.fullResponse = full]}
    /\ UNCHANGED <<outsideChat, issued, noops>>
    /\ UNCHANGED widgets

ChatStreamEndStillTyping(r) ==
    /\ r \in requests
    /\ r.kind = "chat"
    /\ r.botMsgId # ""
    /\ chat' = IF ~Live(r) THEN chat ELSE [chat EXCEPT !.chatSession = Recorded(@, r)]
    /\ requests' = requests \ {r}
    /\ UNCHANGED <<outsideChat, issued, noops>>
    /\ UNCHANGED widgets

\* the stream ends: finally
ChatStreamEnd(r) ==
    /\ r \in requests
    /\ r.kind = "chat"
    /\ r.botMsgId # ""
    /\ chat' = IF ~Live(r) THEN chat
               ELSE [chat EXCEPT !.isTyping = FALSE, !.chatSession = Recorded(@, r)]
    /\ requests' = requests \ {r}
    /\ UNCHANGED <<outsideChat, issued, noops>>
    /\ UNCHANGED widgets

\* sendMessageStream or the stream rejects: catch, finally
ChatError(r) ==
    /\ r \in requests
    /\ r.kind = "chat"
    /\ \E id \in IdValues :
         chat' = IF ~Live(r) THEN chat
                 ELSE [chat EXCEPT
                         !.messages = Append(@, ChatMessage(id, "model", ChatErrorText(build))),
                         !.isTyping = FALSE]
    /\ requests' = requests \ {r}
    /\ UNCHANGED <<outsideChat, issued, noops>>
    /\ UNCHANGED widgets

\* the Clear Chat / Clear button
ClearChat ==
    /\ Shown("chat")
    /\ chat' = [chat EXCEPT !.messages = <<>>,
                            !.chatSession = IF build = "index" THEN @ ELSE NewChatSession]
    /\ requests' = IF build = "index" THEN requests ELSE Detach(requests)
    /\ UNCHANGED <<outsideChat, issued, noops>>
    /\ UNCHANGED widgets

\* -------------------------------------------------------------- GalleryView
RemoveFirstFromGallery(items, id) ==
    LET first == CHOOSE i \in 1..Len(items) :
                     items[i].id = id /\ \A j \in 1..(i - 1) : items[j].id # id
    IN  IF \E i \in 1..Len(items) : items[i].id = id
        THEN SubSeq(items, 1, first - 1) \o SubSeq(items, first + 1, Len(items))
        ELSE items

\* App.removeFromGallery
RemoveFromGallery(items, id) == SelectSeq(items, LAMBDA item : item.id # id)

\* a thumbnail is clicked
SelectItem(i) ==
    /\ Shown("gallery")
    /\ i \in 1..Len(galleryItems)
    /\ selectedItem' = Some(galleryItems[i])
    /\ UNCHANGED <<build, appVars, galleryItems, gen, edit, analyze, chat, abortControllerRef,
                   requests, issued, cancelled, noops>>
    /\ UNCHANGED widgets

\* onClose of the Lightbox
CloseLightbox ==
    /\ Shown("gallery")
    /\ selectedItem # Null
    /\ selectedItem' = Null
    /\ UNCHANGED <<build, appVars, galleryItems, gen, edit, analyze, chat, abortControllerRef,
                   requests, issued, cancelled, noops>>
    /\ UNCHANGED widgets

\* onDelete of the Lightbox; part_000 asks confirm() first
GalleryDelete(confirmed) ==
    /\ Shown("gallery")
    /\ selectedItem # Null
    /\ confirmed \in BOOLEAN
    /\ IF build = "index" \/ confirmed
       THEN /\ galleryItems' = RemoveFromGallery(galleryItems, selectedItem[1].id)
            /\ selectedItem' = Null
       ELSE UNCHANGED <<galleryItems, selectedItem>>
    /\ UNCHANGED <<build, appVars, gen, edit, analyze, chat, abortControllerRef,
                   requests, issued, cancelled, noops>>
    /\ UNCHANGED widgets

\* ------------------------------------------------------------ App, mounted
\* setActiveTab(id) of the tab buttons, and the effect of GenerateView that the
\* render it causes runs
SetActiveTab(t) ==
    /\ Mounted
    /\ t \in Tabs
    /\ activeTab' = t
    /\ gen' = ExternalPromptEffect(gen, sharedPrompt)
    /\ sharedPrompt' = PromptUsed(sharedPrompt)
    /\ UNCHANGED <<build, localStorageKey, userApiKey, showSettingsModal, submitted, inst,
                   galleryItems, edit, analyze, chat, selectedItem, abortControllerRef,
                   requests, issued, cancelled, noops>>
    /\ UNCHANGED widgets

\* the Settings button
OpenSettings ==
    /\ Mounted
    /\ ~showSettingsModal
    /\ showSettingsModal' = TRUE
    /\ UNCHANGED <<build, localStorageKey, userApiKey, activeTab, sharedPrompt, submitted, inst,
                   galleryItems, gen, edit, analyze, chat, selectedItem, abortControllerRef,
                   requests, issued, cancelled, noops>>
    /\ UNCHANGED widgets

\* onClose of the ApiKeyModal
CloseSettings ==
    /\ Mounted
    /\ showSettingsModal
    /\ showSettingsModal' = FALSE
    /\ UNCHANGED <<build, localStorageKey, userApiKey, activeTab, sharedPrompt, submitted, inst,
                   galleryItems, gen, edit, analyze, chat, selectedItem, abortControllerRef,
                   requests, issued, cancelled, noops>>
    /\ UNCHANGED widgets

\* App.saveApiKey, called by the ApiKeyModal (onSave): the views stay mounted and
\* ChatView's effect on apiKey creates a new session
SaveApiKey(key) ==
    /\ Mounted
    /\ showSettingsModal
    /\ KeyAccepted(key)
    /\ localStorageKey' = Some(key)
    /\ userApiKey' = key
    /\ showSettingsModal' = FALSE
    /\ submitted' = TRUE
    /\ chat' = IF key # userApiKey THEN [chat EXCEPT !.chatSession = NewChatSession] ELSE chat
    /\ requests' = IF key # userApiKey THEN Detach(requests) ELSE requests
    /\ UNCHANGED <<build, activeTab, sharedPrompt, inst, galleryItems, gen, edit, analyze,
                   selectedItem, abortControllerRef, issued, cancelled, noops>>
    /\ UNCHANGED widgets

\* ----------------------------------------------------------- compressImage
\* Math.round of the quotient a / b of two positive integers: the nearest integer,
\* a half rounded up
RoundDiv(a, b) == (2 * a + b) \div (2 * b)

\* compressImage: let width = img.width; let height = img.height;
\* if (width > maxWidth) { height = Math.round((height * maxWidth) / width); width = maxWidth }
\* canvas.width = width; canvas.height = height
CanvasSize(w, h, maxWidth) ==
    IF w > maxWidth
    THEN [width |-> maxWidth, height |-> RoundDiv(h * maxWidth, w)]
    ELSE [width |-> w, height |-> h]

\* img.onload of compressImage, reached from fileToGenerativePart(file, true) for an image
\* file: the canvas gets its size and the picture is drawn to it
CompressImage ==
    /\ build = "index"
    /\ img # Null
    /\ canvas = Null
    /\ canvas' = Some(CanvasSize(img[1].width, img[1].height, MaxWidth))
    /\ UNCHANGED <<outsideWidgets, img, panZoom>>

\* -------------------------------------------- PanZoomImage / ZoomableImage
\* The component is rendered by createRoot (React 18, src/index.tsx:1346). A handler is a
\* closure of the last render: it reads scale, position, isDragging and startPos as that
\* render saw them (panZoom.seen), while a setter acts on the latest state. After a
\* discrete event (click, mousedown, mouseup) React renders before the next event; after
\* a continuous event (wheel, mousemove, mouseleave) the render is a scheduled task, so
\* further events can be handled by the closures of the previous render.
Rendered(pz) ==
    [scale |-> pz.scale, position |-> pz.position, isDragging |-> pz.isDragging,
     startPos |-> pz.startPos]

\* the render that follows the handler of a discrete event
Commit(pz) == [pz EXCEPT !.seen = Rendered(pz)]

\* the scheduled render after continuous events
RenderPanZoom ==
    /\ panZoom.seen # Rendered(panZoom)
    /\ panZoom' = Commit(panZoom)
    /\ UNCHANGED <<outsideWidgets, img, canvas>>

\* zoomIn (onClick): setScale(s => Math.min(s + 0.5, 5))
ZoomIn ==
    /\ panZoom' = Commit([panZoom EXCEPT !.scale = Min(@ + ZoomStep, ScaleMax)])
    /\ UNCHANGED <<outsideWidgets, img, canvas>>

\* zoomOut (onClick): setScale(s => { const n = Math.max(1, s - 0.5);
\*                                    if (n === 1) setPosition({x:0, y:0}); return n })
ZoomOut ==
    /\ LET n == Max(ScaleOne, panZoom.scale - ZoomStep)
       IN  panZoom' = Commit([panZoom EXCEPT !.scale = n,
                                             !.position = IF n = ScaleOne THEN <<0, 0>> ELSE @])
    /\ UNCHANGED <<outsideWidgets, img, canvas>>

\* reset (onClick): setScale(1); setPosition({ x: 0, y: 0 }); its button is rendered
\* when scale > 1
ResetZoom ==
    /\ panZoom.seen.scale > ScaleOne
    /\ panZoom' = Commit([panZoom EXCEPT !.scale = ScaleOne, !.position = <<0, 0>>])
    /\ UNCHANGED <<outsideWidgets, img, canvas>>

\* ZoomableImage.handleWheel (part_000 only): const delta = -e.deltaY * 0.001;
\* const newScale = Math.min(Math.max(1, scale + delta), 5); setScale(newScale);
\* if (newScale === 1) setPosition({ x: 0, y: 0 })
\* deltaY is counted in units of one: -deltaY * 0.001 is -deltaY thousandths
HandleWheel(deltaY) ==
    /\ build = "part_000"
    /\ LET newScale == Min(Max(ScaleOne, panZoom.seen.scale - deltaY), ScaleMax)
       IN  panZoom' = [panZoom EXCEPT !.scale = newScale,
                                      !.position = IF newScale = ScaleOne THEN <<0, 0>> ELSE @]
    /\ UNCHANGED <<outsideWidgets, img, canvas>>

\* handleMouseDown: if (scale > 1) { setIsDragging(true);
\*                  setStartPos({ x: e.clientX - position.x, y: e.clientY - position.y }) }
HandleMouseDown(clientX, clientY) ==
    /\ panZoom' = Commit(IF panZoom.seen.scale > ScaleOne
                         THEN [panZoom EXCEPT !.isDragging = TRUE,
                                              !.startPos = <<clientX - panZoom.seen.position[1],
                                                             clientY - panZoom.seen.position[2]>>]
                         ELSE panZoom)
    /\ UNCHANGED <<outsideWidgets, img, canvas>>

\* the position handleMouseMove computes: e.clientX - startPos.x, e.clientY - startPos.y
DraggedTo(pz, clientX, clientY) == <<clientX - pz.seen.startPos[1], clientY - pz.seen.startPos[2]>>

\* handleMouseMove: if (isDragging && scale > 1) setPosition({ x: newX, y: newY })
\* (pan offsets beyond MaxPan are not followed)
HandleMouseMove(clientX, clientY) ==
    /\ \A i \in 1..2 : DraggedTo(panZoom, clientX, clientY)[i] \in -MaxPan..MaxPan
    /\ panZoom' = IF panZoom.seen.isDragging /\ panZoom.seen.scale > ScaleOne
                  THEN [panZoom EXCEPT !.position = DraggedTo(panZoom, clientX, clientY)]
                  ELSE panZoom
    /\ UNCHANGED <<outsideWidgets, img, canvas>>

\* handleMouseUp, bound to onMouseUp and to onMouseLeave (leave): setIsDragging(false)
HandleMouseUp(leave) ==
    /\ panZoom' = IF leave THEN [panZoom EXCEPT !.isDragging = FALSE]
                  ELSE Commit([panZoom EXCEPT !.isDragging = FALSE])
    /\ UNCHANGED <<outsideWidgets, img, canvas>>

\* e.deltaY of a wheel event
WheelDeltas == {-250, 250, 6000}
\* e.clientX, e.clientY of a mouse event
ClientCoords == 0..1

\* ------------------------------------------------------------ specifications
Next ==
    \/ \E key \in KeyInputs : Login(key)
    \/ HandleLogout
    \/ \E key \in KeyInputs : SaveApiKey(key)
    \/ OpenSettings
    \/ CloseSettings
    \/ \E t \in Tabs : SetActiveTab(t)
    \/ \E p \in PromptInputs : GenerateSetPrompt(p)
    \/ \E m \in {"flash", "imagen"} : SetModelType(m)
    \/ \E newFiles \in RefUploads : HandleRefUpload(newFiles)
    \/ \E index \in 1..MaxRefImages : RemoveRefImage(index)
    \/ ToggleLockFace
    \/ HandleGenerate
    \/ HandleStop
    \/ \E r \in requests, resp \in ContentResponses \cup ImagenResponses : GenerateResponse(r, resp)
    \/ HandleEnhancePrompt
    \/ \E r \in requests, resp \in EnhanceResponses : EnhanceResponse(r, resp)
    \/ GenerateClear
    \/ GenerateDismiss
    \/ \E f \in FileInputs : HandleImageUpload(f)
    \/ \E p \in PromptInputs : EditSetPrompt(p)
    \/ HandleEdit
    \/ \E r \in requests, resp \in ContentResponses : EditResponse(r, resp)
    \/ EditTick
    \/ EditDismiss
    \/ \E f \in FileInputs : HandleFileUpload(f)
    \/ RemoveMedia
    \/ \E p \in PromptInputs : AnalyzeSetPrompt(p)
    \/ HandleAnalyze
    \/ \E r \in requests, resp \in AnalyzeResponses : AnalyzeResponse(r, resp)
    \/ HandleGenerateFromAnalysis
    \/ \E t \in ChatInputs : ChatSetInput(t)
    \/ HandleSend
    \/ \E r \in requests : ChatStreamStart(r)
    \/ \E r \in requests, text \in ChunkTexts : ChatChunk(r, text)
    \/ \E r \in requests : ChatStreamEnd(r)
    \/ \E r \in requests : ChatError(r)
    \/ ClearChat
    \/ \E i \in 1..Len(galleryItems) : SelectItem(i)
    \/ CloseLightbox
    \/ \E confirmed \in BOOLEAN : GalleryDelete(confirmed)
    \/ CompressImage
    \/ ZoomIn
    \/ ZoomOut
    \/ ResetZoom
    \/ \E deltaY \in WheelDeltas : HandleWheel(deltaY)
    \/ \E x \in ClientCoords, y \in ClientCoords : HandleMouseDown(x, y)
    \/ \E x \in ClientCoords, y \in ClientCoords : HandleMouseMove(x, y)
    \/ \E leave \in BOOLEAN : HandleMouseUp(leave)
    \/ RenderPanZoom

\* the whole application
Spec == Init /\ [][Next]_vars

\* responses used where their variety does not matter
ImageResponse == Resolved(<<Candidate("STOP", <<ImagePart("image/png", "img1")>>)>>)
QuotaResponse == Rejected(<<"429", "Quota", "exceeded">>)
PhotoFile == [name |-> "photo.png", type |-> "image/png"]

NextEdit ==
    \/ \E key \in {<<>>, KeyA} : Login(key)
    \/ HandleLogout
    \/ \E t \in {"edit"} : SetActiveTab(t)
    \/ \E f \in {PhotoFile} : HandleImageUpload(f)
    \/ \E p \in PromptInputs \ {<<"b">>} : EditSetPrompt(p)
    \/ HandleEdit
    \/ \E r \in requests, resp \in ContentResponses : EditResponse(r, resp)
    \/ EditTick
    \/ EditDismiss

\* App and MagicEditView
SpecEdit == Init /\ [][NextEdit]_vars

\* MagicEditView with its timer: while the view is mounted and cooldown > 0
\* an interval is set, and the browser fires it after a second
SpecCooldown == Init /\ [][NextEdit]_vars /\ WF_vars(EditTick)

NextApp ==
    \/ \E key \in {<<>>, KeyA} : Login(key)
    \/ \E t \in Tabs : SetActiveTab(t)
    \/ \E p \in {<<" ", "a">>} : GenerateSetPrompt(p)
    \/ \E f \in {PhotoFile} : HandleImageUpload(f)
    \/ \E p \in {<<" ", "a">>} : EditSetPrompt(p)
    \/ HandleEdit
    \/ \E r \in requests, resp \in {ImageResponse, QuotaResponse} : EditResponse(r, resp)
    \/ \E f \in {PhotoFile} : HandleFileUpload(f)
    \/ HandleAnalyze
    \/ \E r \in requests, resp \in {ResolvedText(AnalysisText)} : AnalyzeResponse(r, resp)
    \/ HandleGenerateFromAnalysis
    \/ \E t \in {<<"h", "i">>} : ChatSetInput(t)
    \/ HandleSend
    \/ \E r \in requests : ChatError(r)
    \/ \E i \in 1..Len(galleryItems) : SelectItem(i)

\* App with all five views, each view on one input
SpecApp == Init /\ [][NextApp]_vars

NextIds ==
    \/ \E key \in {<<>>, KeyA} : Login(key)
    \/ \E t \in {"generate", "chat", "gallery"} : SetActiveTab(t)
    \/ \E p \in {<<" ", "a">>} : GenerateSetPrompt(p)
    \/ HandleGenerate
    \/ \E r \in requests, resp \in {ImageResponse, QuotaResponse} : GenerateResponse(r, resp)
    \/ \E t \in ChatInputs : ChatSetInput(t)
    \/ HandleSend
    \/ \E r \in requests : ChatStreamStart(r)
    \/ \E r \in requests, text \in ChunkTexts : ChatChunk(r, text)
    \/ \E r \in requests : ChatStreamEnd(r)
    \/ \E r \in requests : ChatError(r)
    \/ ClearChat
    \/ \E i \in 1..Len(galleryItems) : SelectItem(i)
    \/ CloseLightbox
    \/ \E confirmed \in BOOLEAN : GalleryDelete(confirmed)

\* the operations that create, change and delete gallery items and chat messages
SpecIds == Init /\ [][NextIds]_vars

NextKey ==
    \/ \E key \in KeyInputs : Login(key)
    \/ HandleLogout
    \/ \E key \in KeyInputs : SaveApiKey(key)
    \/ OpenSettings
    \/ CloseSettings
    \/ \E t \in Tabs : SetActiveTab(t)

\* start, saveApiKey and handleLogout
SpecKey == Init /\ [][NextKey]_vars

NextGenerate ==
    \/ \E key \in KeyInputs \ {KeyB} : Login(key)
    \/ \E p \in PromptInputs \ {<<"b">>} : GenerateSetPrompt(p)
    \/ \E m \in {"flash", "imagen"} : SetModelType(m)
    \/ HandleGenerate
    \/ HandleStop
    \/ \E r \in requests, resp \in ContentResponses \cup ImagenResponses : GenerateResponse(r, resp)
    \/ HandleEnhancePrompt
    \/ \E r \in requests, resp \in EnhanceResponses : EnhanceResponse(r, resp)
    \/ GenerateClear
    \/ GenerateDismiss

\* App and GenerateView
SpecGenerate == Init /\ [][NextGenerate]_vars

NextRefs ==
    \/ Login(KeyA)
    \/ GenerateSetPrompt(<<" ", "a">>)
    \/ \E m \in {"flash", "imagen"} : SetModelType(m)
    \/ \E newFiles \in RefUploads : HandleRefUpload(newFiles)
    \/ \E index \in 1..MaxRefImages : RemoveRefImage(index)
    \/ ToggleLockFace
    \/ HandleGenerate
    \/ \E r \in requests : GenerateResponse(r, QuotaResponse)

\* GenerateView with its reference images
SpecRefs == Init /\ [][NextRefs]_vars

\* responses that carry an image
GalleryResponses ==
    { ImageResponse,
      Resolved(<<Candidate("STOP", <<TextPart(RefusalText), ImagePart("", "img2")>>)>>) }

NextGallery ==
    \/ \E t \in {"generate", "edit"} : SetActiveTab(t)
    \/ \E p \in {<<" ", "a">>, <<"b">>} : GenerateSetPrompt(p)
    \/ HandleGenerate
    \/ HandleStop
    \/ \E r \in requests, resp \in GalleryResponses : GenerateResponse(r, resp)
    \/ HandleImageUpload(PhotoFile)
    \/ \E p \in {<<" ", "a">>, <<"b">>} : EditSetPrompt(p)
    \/ HandleEdit
    \/ \E r \in requests : EditResponse(r, ImageResponse)

NextEnhance ==
    \/ \E key \in {<<>>, KeyA} : Login(key)
    \/ HandleLogout
    \/ \E p \in PromptInputs \ {<<"b">>} : GenerateSetPrompt(p)
    \/ HandleEnhancePrompt
    \/ \E r \in requests, resp \in EnhanceResponses : EnhanceResponse(r, resp)
    \/ HandleGenerate
    \/ \E r \in requests : GenerateResponse(r, QuotaResponse)
    \/ GenerateDismiss

\* GenerateView with its prompt enhancer, and App's login and logout
SpecEnhance == Init /\ [][NextEnhance]_vars

\* the two views that add items to the gallery
SpecGallery == Init /\ [][NextGallery]_vars

\* compressImage alone, on every decoded image of the sizes below: narrower than, as wide
\* as and wider than maxWidth, up to more than twice maxWidth times the height
ImageWidths == {1, 2, 383, 384, 385, 767, 768, 769, 1000}
ImageHeights == {1, 2, 3, 500}
Images == [width : ImageWidths, height : ImageHeights]

InitCompress == InitApp /\ img \in {Some(i) : i \in Images}

NextCompress == CompressImage

SpecCompress == InitCompress /\ [][NextCompress]_vars

\* one pan/zoom component under the events of its buttons, the wheel and the mouse
NextPanZoom ==
    \/ ZoomIn
    \/ ZoomOut
    \/ ResetZoom
    \/ \E deltaY \in WheelDeltas : HandleWheel(deltaY)
    \/ \E x \in ClientCoords, y \in ClientCoords : HandleMouseDown(x, y)
    \/ \E x \in ClientCoords, y \in ClientCoords : HandleMouseMove(x, y)
    \/ \E leave \in BOOLEAN : HandleMouseUp(leave)
    \/ RenderPanZoom

SpecPanZoom == Init /\ [][NextPanZoom]_vars

\* the gallery filled by generations, its lightbox, and App's login and logout
NextLightbox ==
    \/ \E key \in {<<>>, KeyA} : Login(key)
    \/ HandleLogout
    \/ \E t \in {"generate", "gallery"} : SetActiveTab(t)
    \/ GenerateSetPrompt(<<" ", "a">>)
    \/ HandleGenerate
    \/ \E r \in requests : GenerateResponse(r, ImageResponse)
    \/ \E i \in 1..Len(galleryItems) : SelectItem(i)
    \/ CloseLightbox
    \/ \E confirmed \in BOOLEAN : GalleryDelete(confirmed)

SpecLightbox == Init /\ [][NextLightbox]_vars

\* AnalyzeView handing its result to GenerateView, with App's tabs, login and logout
NextHandoff ==
    \/ \E key \in {<<>>, KeyA} : Login(key)
    \/ HandleLogout
    \/ \E t \in {"generate", "analyze"} : SetActiveTab(t)
    \/ \E p \in {<<" ", "a">>, <<"b">>} : GenerateSetPrompt(p)
    \/ HandleFileUpload(PhotoFile)
    \/ HandleAnalyze
    \/ \E r \in requests, resp \in AnalyzeResponses : AnalyzeResponse(r, resp)
    \/ HandleGenerateFromAnalysis

SpecHandoff == Init /\ [][NextHandoff]_vars

\* ChatView alone, with App's login and logout
NextChat ==
    \/ \E key \in {<<>>, KeyA} : Login(key)
    \/ HandleLogout
    \/ SetActiveTab("chat")
    \/ \E t \in {<<" ">>, <<"h", "i">>} : ChatSetInput(t)
    \/ HandleSend
    \/ \E r \in requests : ChatStreamStart(r)
    \/ \E r \in requests, text \in ChunkTexts : ChatChunk(r, text)
    \/ \E r \in requests : ChatStreamEnd(r)
    \/ \E r \in requests : ChatError(r)
    \/ ClearChat

SpecChat == Init /\ [][NextChat]_vars

\* the four views that send requests, each on one input, with cancellation and logout;
\* the views share no state, so the user is followed in the one view they chose
\* no view has been used since it was mounted
ViewsUntouched ==
    /\ gen = GenerateViewInit
    /\ edit = EditViewInit
    /\ analyze = AnalyzeViewInit
    /\ chat = ChatViewInit(userApiKey)
    /\ issued = 0

NetworkError == Rejected(<<"network", "error">>)
\* a response with an image and a rejection
BusyResponses == {ImageResponse, NetworkError}

NextBusy ==
    \/ HandleLogout
    \/ ViewsUntouched /\ \E t \in {"generate", "edit", "analyze", "chat"} : SetActiveTab(t)
    \/ GenerateSetPrompt(<<" ", "a">>)
    \/ HandleGenerate
    \/ HandleStop
    \/ \E r \in requests, resp \in BusyResponses : GenerateResponse(r, resp)
    \/ HandleEnhancePrompt
    \/ \E r \in requests : EnhanceResponse(r, NetworkError)
    \/ HandleImageUpload(PhotoFile)
    \/ EditSetPrompt(<<" ", "a">>)
    \/ HandleEdit
    \/ \E r \in requests, resp \in BusyResponses : EditResponse(r, resp)
    \/ HandleFileUpload(PhotoFile)
    \/ HandleAnalyze
    \/ \E r \in requests : AnalyzeResponse(r, NetworkError)
    \/ ChatSetInput(<<"h", "i">>)
    \/ HandleSend
    \/ \E r \in requests : ChatStreamStart(r)
    \/ \E r \in requests : ChatStreamEnd(r)
    \/ \E r \in requests : ChatError(r)

\* every awaited call settles: the promise of each kind of request resolves or rejects,
\* and a stream that has started ends or throws
CallsSettle ==
    /\ WF_vars(\E r \in requests, resp \in BusyResponses : GenerateResponse(r, resp))
    /\ WF_vars(\E r \in requests : EnhanceResponse(r, NetworkError))
    /\ WF_vars(\E r \in requests, resp \in BusyResponses : EditResponse(r, resp))
    /\ WF_vars(\E r \in requests : AnalyzeResponse(r, NetworkError))
    /\ WF_vars(\E r \in requests : ChatStreamStart(r) \/ ChatError(r))
    /\ WF_vars(\E r \in requests : ChatStreamEnd(r) \/ ChatError(r))

SpecBusy == Init /\ [][NextBusy]_vars /\ CallsSettle

\* ------------------------------------------------------------------ claims
AllResponses == ContentResponses \cup ImagenResponses

\* the image data carried by a response to r, "" when it carries none
ResponseImage(r, resp) ==
    IF resp.rejected THEN ""
    ELSE IF r.modelType = "imagen" THEN resp.imageBytes
    ELSE IF resp.candidates = <<>> THEN ""
    ELSE IF resp.candidates[1].finishReason = "SAFETY" THEN ""
    ELSE LET k == FirstInline(resp.candidates[1].parts, 1)
         IN  IF k = 0 THEN "" ELSE resp.candidates[1].parts[k].data

\* C1: a step of handleGenerate taken while the prompt is empty or only
\* whitespace sends no request and leaves loading, generatedImage, errorMsg
\* (all of the view's state), the abort handle and the gallery unchanged.
C1_BlankGenerateIsNoOp ==
    [][(HandleGenerate /\ Trim(gen.prompt) = <<>>)
        => UNCHANGED <<gen, abortControllerRef, galleryItems, requests, issued>>]_vars

\* C1 witness: handleGenerate has returned early on a whitespace prompt while
\* an image was displayed and a request could still have been sent.
C1_Witness ==
    /\ "handleGenerate" \in noops
    /\ GenerateButtonEnabled
    /\ Trim(gen.prompt) = <<>>
    /\ gen.generatedImage # Null
    /\ issued < MaxRequests

\* C2: the continuation of a generation the user cancelled with handleStop
\* changes neither generatedImage nor the gallery.
C2_CancelledResponseIgnored ==
    [][\A r \in requests, resp \in AllResponses :
         (GenerateResponse(r, resp) /\ r.id \in cancelled /\ Live(r))
         => (gen'.generatedImage = gen.generatedImage /\ galleryItems' = galleryItems)]_vars

\* C3: the generate view never has two calls to the external API in flight.
C3_AtMostOneInFlight ==
    Cardinality({r \in requests : r.kind \in {"generate", "enhance"} /\ Live(r)}) <= 1

\* C4: when a generation that was not cancelled fails (rejection, no
\* candidate, safety block, refusal, no image), errorMsg is set afterwards.
C4_FailureShowsError ==
    [][\A r \in requests, resp \in AllResponses :
         (GenerateResponse(r, resp) /\ r.id \notin cancelled /\ Live(r)
            /\ ResponseImage(r, resp) = "")
         => gen'.errorMsg # Null]_vars

\* a response to an edit request that fails: rejection, no candidate, safety
\* block, or no image part (with or without refusal text)
EditFails(resp) ==
    \/ resp.rejected
    \/ resp.candidates = <<>>
    \/ resp.candidates[1].finishReason = "SAFETY"
    \/ FirstInline(resp.candidates[1].parts, 1) = 0

\* C5: when an edit request fails while the edit view that sent it is still
\* mounted, the view ends with errorMsg set, resultImage null and loading false.
C5_EditFailureShowsError ==
    [][\A r \in requests, resp \in ContentResponses :
         (Live(r) /\ EditFails(resp) /\ EditResponse(r, resp))
         => (edit'.errorMsg # Null /\ edit'.resultImage = Null /\ ~edit'.loading)]_vars

\* C5 witness: the edit view shows the quota text of a failed request, with no
\* result image, not loading, and the cooldown started.
C5_Witness ==
    /\ Shown("edit")
    /\ issued > 0
    /\ edit.errorMsg = Some(Text("Quota Exceeded. Cooldown 60s."))
    /\ edit.resultImage = Null
    /\ ~edit.loading
    /\ edit.cooldown = CooldownSeconds

\* C5 as stated, for every edit request that fails, mounted view or not.
C5_AsStated ==
    [][\A r \in requests, resp \in ContentResponses :
         (EditResponse(r, resp) /\ EditFails(resp))
         => (edit'.errorMsg # Null /\ edit'.resultImage = Null /\ ~edit'.loading)]_vars

\* C6: when the response of a generation that was not cancelled carries an
\* image, that image becomes generatedImage and exactly one gallery item of
\* type 'generated' with that image is appended.
C6_ImageShownAndStored ==
    [][\A r \in requests, resp \in AllResponses :
         (GenerateResponse(r, resp) /\ r.id \notin cancelled /\ Live(r)
            /\ ResponseImage(r, resp) # "")
         => /\ gen'.generatedImage # Null
            /\ gen'.generatedImage[1][4] = ResponseImage(r, resp)
            /\ Len(galleryItems') = Len(galleryItems) + 1
            /\ SubSeq(galleryItems', 1, Len(galleryItems)) = galleryItems
            /\ galleryItems'[Len(galleryItems')].type = "generated"
            /\ galleryItems'[Len(galleryItems')].src = gen'.generatedImage[1]]_vars

\* the elements of a sequence of records have pairwise distinct ids
DistinctIds(s) == \A i, j \in 1..Len(s) : i # j => s[i].id # s[j].id

\* C7: no two gallery items share an identifier and no two chat messages
\* share an identifier.
C7_UniqueIds == DistinctIds(galleryItems) /\ DistinctIds(chat.messages)

\* C8: as long as local storage holds no key and no key has been submitted,
\* the login screen is shown and no studio view is mounted.
C8_LoginGate == (localStorageKey = Null /\ ~submitted) => ~Mounted

\* C9: the key held in memory equals the key in local storage, both being
\* empty when logged out.
C9_KeyMirrorsStorage == userApiKey = StoredOr(localStorageKey, <<>>)

\* C10: a step of setActiveTab changes activeTab only: every view's state,
\* the in-flight requests, the gallery and the rest of App stay as they were.
C10_TabSwitchPreservesState ==
    [][\A t \in Tabs :
         SetActiveTab(t)
         => UNCHANGED <<gen, edit, analyze, chat, selectedItem, galleryItems, requests,
                        abortControllerRef, sharedPrompt, userApiKey, localStorageKey,
                        showSettingsModal>>]_vars

\* C10 witness: the gallery tab is active while the other views hold a typed
\* prompt, an uploaded file, a result image, chat messages and a request in
\* flight, and the gallery holds an item.
C10_Witness ==
    /\ activeTab = "gallery"
    /\ gen.prompt # <<>>
    /\ edit.image # Null
    /\ edit.resultImage # Null
    /\ chat.messages # <<>>
    /\ chat.isTyping
    /\ requests # {}
    /\ galleryItems # <<>>

\* C16: in every reachable state the generate view holds at most 4 reference
\* images, refPreviews is as long as refImages, and the preview at each
\* position is the object URL of the file at the same position.
C16_RefListsAligned ==
    /\ Len(gen.refImages) <= MaxRefImages
    /\ Len(gen.refPreviews) = Len(gen.refImages)
    /\ \A i \in 1..Len(gen.refImages) : gen.refPreviews[i] = CreateObjectURL(gen.refImages[i])

\* four references of two different files are attached
C16_Witness ==
    /\ Len(gen.refImages) = MaxRefImages
    /\ gen.refImages[1] # gen.refImages[MaxRefImages]

\* the inline (image) parts of a request, in the order they are sent
SentImages(r) == SelectSeq(r.parts, LAMBDA part : part.inlineData)

\* the reference files a build can encode: index.tsx skips a file whose
\* compression fails
Encodable(b, files) ==
    IF b = "index" THEN SelectSeq(files, LAMBDA f : f.decodes) ELSE files

\* the parts hold the images of these files, in order, then one text part
ImagesThenText(parts, files) ==
    /\ Len(parts) = Len(files) + 1
    /\ \A i \in 1..Len(files) : parts[i].inlineData /\ parts[i].data = files[i].name
    /\ ~parts[Len(parts)].inlineData

\* C12: a generation request sent to the flash model carries, in upload order
\* and before its single text part, every attached reference image that the
\* build could encode (part_000: every attached image; index.tsx: those that
\* decode); a request sent to Imagen carries no image at all.
C12_RefsSentToFlash ==
    [][\A r \in requests' \ requests :
          r.kind = "generate" =>
             IF r.modelType = "flash"
             THEN ImagesThenText(r.parts, Encodable(build, gen.refImages))
             ELSE SentImages(r) = <<>>]_vars

\* a flash request carrying two reference images is in flight
C12_Witness ==
    \E r \in requests :
        r.kind = "generate" /\ r.modelType = "flash" /\ Len(SentImages(r)) >= 2

\* C12 as stated: every generation request carries all attached reference
\* images, in upload order, whichever model is selected.
C12_AsStated ==
    [][\A r \in requests' \ requests :
          r.kind = "generate" =>
             /\ Len(SentImages(r)) = Len(gen.refImages)
             /\ \A i \in 1..Len(gen.refImages) :
                   SentImages(r)[i].data = gen.refImages[i].name]_vars

\* the text sent with request r: the text part of a generateContent call,
\* the prompt of a generateImages call
SentText(r) ==
    IF r.parts # <<>> THEN r.parts[Len(r.parts)].text ELSE r.prompt

\* C11: when the response to a request appends a gallery item, the item's src
\* is the data URL of the image carried by that response and the item's
\* prompt is the text that was sent with that request, whatever the prompt
\* field holds and whatever other request is in flight at that moment.
C11_ItemPairsImageWithPrompt ==
    [][\A r \in requests, resp \in GalleryResponses :
          ((GenerateResponse(r, resp) \/ EditResponse(r, resp))
              /\ galleryItems' # galleryItems)
          => LET item == galleryItems'[Len(galleryItems')]
             IN  /\ galleryItems' = Append(galleryItems, item)
                 /\ ResponseImage(r, resp) # ""
                 /\ item.src[4] = ResponseImage(r, resp)
                 /\ item.prompt = SentText(r)]_vars

\* a stored item carries a prompt that is neither the one in the prompt field
\* nor the one of the generation request that is in flight
C11_Witness ==
    \E i \in 1..Len(galleryItems) :
        /\ galleryItems[i].type = "generated"
        /\ galleryItems[i].prompt # gen.prompt
        /\ \E r \in requests : r.kind = "generate" /\ r.prompt # galleryItems[i].prompt

\* C13: in the generate view of index.tsx, when a generation that was not
\* cancelled is rejected with a rate-limit message, the quota text is shown
\* and the cooldown is set to 60 afterwards.
C13_QuotaStartsCooldown ==
    [][\A r \in requests :
         (GenerateResponse(r, QuotaResponse) /\ build = "index"
            /\ r.id \notin cancelled /\ Live(r))
         => /\ gen'.errorMsg = Some(Text("Quota Exceeded. Cooling down 60s."))
            /\ gen'.cooldown = CooldownSeconds]_vars

\* the text the precedence rule gives for an error message
PrecedenceText(message) ==
    LET lower == ToLowerCase(message)
    IN  IF Includes(lower, "429") \/ Includes(lower, "quota")
        THEN Text("Quota Exceeded. Cooling down 60s.")
        ELSE IF Includes(lower, "403") \/ Includes(lower, "permission")
                \/ Includes(lower, "billing")
        THEN Text("Access Denied: Check Billing or Domain restrictions on your API Key.")
        ELSE IF Includes(lower, "400") \/ Includes(lower, "invalid")
        THEN Text("Bad Request: Model may not be supported in your region or project.")
        ELSE message

\* C17: in the generate view of index.tsx, after a generation that was not
\* cancelled is rejected with a non-empty message, the error text shown is the
\* one the precedence rule gives for that message.
C17_ErrorTextByPrecedence ==
    [][\A r \in requests, resp \in AllResponses :
         (GenerateResponse(r, resp) /\ build = "index" /\ resp.rejected
            /\ resp.message # <<>> /\ r.id \notin cancelled /\ Live(r))
         => gen'.errorMsg = Some(PrecedenceText(resp.message))]_vars

\* C14: in the edit view of index.tsx, a request of the mounted view that is
\* rejected with a message containing '429' sets the quota text and sets
\* cooldown to 60; and while cooldown > 0 handleEdit returns at its first
\* line, no step sends an edit request or changes loading, and a step of
\* handleEdit leaves the view's state unchanged.
C14_EditCooldown ==
    [][build = "index" =>
         /\ \A r \in requests :
               (EditResponse(r, QuotaResponse) /\ Live(r))
               => /\ edit'.cooldown = CooldownSeconds
                  /\ edit'.errorMsg = Some(Text("Quota Exceeded. Cooldown 60s."))
         /\ (Mounted /\ edit.cooldown > 0)
               => /\ EditReturnsEarly(build, edit)
                  /\ \A r \in requests' \ requests : r.kind # "edit"
                  /\ edit'.loading = edit.loading
                  /\ HandleEdit => edit' = edit]_vars

\* the cooldown is running and is the only thing that holds handleEdit back
C14_Witness ==
    /\ build = "index"
    /\ Mounted
    /\ edit.cooldown \in 1..(CooldownSeconds - 1)
    /\ edit.image # Null
    /\ Trim(edit.prompt) # <<>>
    /\ ~edit.loading

\* C14 as stated: in the edit view of either build, whether or not the view
\* is still mounted, a request rejected with '429' leaves cooldown at 60.
C14_AsStated ==
    [][\A r \in requests :
         EditResponse(r, QuotaResponse) => edit'.cooldown = CooldownSeconds]_vars

\* C15: a tick of the cooldown timer happens only while the counter is
\* positive and takes exactly 1 off; the counter is never negative; a positive
\* counter eventually reaches 0; and at 0 handleEdit no longer returns early
\* because of the cooldown (it does so only for a missing image or a blank
\* prompt).
C15_CooldownCountsDown ==
    /\ [][EditTick => (edit.cooldown > 0 /\ edit'.cooldown = edit.cooldown - 1)]_vars
    /\ [](edit.cooldown >= 0 /\ gen.cooldown >= 0)
    /\ (edit.cooldown > 0) ~> (edit.cooldown = 0)
    /\ [](edit.cooldown = 0 =>
             (EditReturnsEarly(build, edit) <=> (edit.image = Null \/ Trim(edit.prompt) = <<>>)))

\* the counter has come down from 60 to 1 in a mounted view
C15_Witness == Mounted /\ edit.cooldown = 1

\* a resolved generateContent response with no candidate, with finishReason
\* SAFETY, or whose first candidate has no image part
HasNoImage(resp) ==
    /\ ~resp.rejected
    /\ resp.imageBytes = ""
    /\ \/ resp.candidates = <<>>
       \/ resp.candidates[1].finishReason = "SAFETY"
       \/ FirstInline(resp.candidates[1].parts, 1) = 0

\* C18: after the response to a generation of the mounted view, not
\* cancelled, that has no candidate, finishReason SAFETY or no image part, the
\* gallery is as before and the displayed image is null.
C18_NoImageNothingShown ==
    [][\A r \in requests, resp \in ContentResponses :
         (GenerateResponse(r, resp) /\ r.modelType = "flash" /\ HasNoImage(resp)
            /\ r.id \notin cancelled /\ Live(r))
         => /\ galleryItems' = galleryItems
            /\ gen'.generatedImage = Null]_vars

\* the first candidate of a resolved response holds an image part (and was
\* not stopped for SAFETY)
HasImagePart(resp) ==
    /\ ~resp.rejected
    /\ resp.candidates # <<>>
    /\ resp.candidates[1].finishReason # "SAFETY"
    /\ FirstInline(resp.candidates[1].parts, 1) # 0

\* url is a data URL of the image part
IsDataUrlOf(url, part) ==
    /\ url[1] = "data:"
    /\ part.mimeType # "" => url[2] = part.mimeType
    /\ url[3] = ";base64,"
    /\ url[4] = part.data

\* what C19 says of one step: resultImage is the data URL of the first image
\* part, and exactly one item, of type 'edited' and with that src, is appended
EditedImageStored(resp) ==
    LET parts == resp.candidates[1].parts
        first == parts[FirstInline(parts, 1)]
    IN  /\ edit'.resultImage # Null
        /\ IsDataUrlOf(edit'.resultImage[1], first)
        /\ Len(galleryItems') = Len(galleryItems) + 1
        /\ SubSeq(galleryItems', 1, Len(galleryItems)) = galleryItems
        /\ galleryItems'[Len(galleryItems')].type = "edited"
        /\ Some(galleryItems'[Len(galleryItems')].src) = edit'.resultImage

LastUser(messages) ==
    LET users == {i \in 1..Len(messages) : messages[i].role = "user"}
    IN  IF users = {} THEN 0 ELSE CHOOSE i \in users : \A j \in users : j <= i

\* C20: when the send of a mounted chat view settles (isTyping returns to
\* false) and its user message is still in the list, the list ends with that
\* user message followed by exactly one model message.
C20_OneReplyPerSend ==
    [][\A r \in requests :
         ((ChatStreamEnd(r) \/ ChatError(r)) /\ Live(r) /\ LastUser(chat.messages) # 0)
         => LET i == LastUser(chat'.messages)
            IN  /\ ~chat'.isTyping
                /\ Len(chat'.messages) = i + 1
                /\ chat'.messages[i + 1].role = "model"]_vars

\* C21: in index.tsx a step of handleEnhancePrompt on a blank prompt changes
\* nothing and sends nothing; when the call of a still mounted view settles,
\* loading is false afterwards, a non-empty response text, trimmed, has become
\* the prompt, and a rejection has set errorMsg to 'Failed to enhance prompt.'
\* and left the prompt as it was.
C21_EnhancePrompt ==
    [][/\ (HandleEnhancePrompt /\ Trim(gen.prompt) = <<>>)
            => (gen' = gen /\ requests' = requests /\ galleryItems' = galleryItems)
       /\ \A r \in requests, resp \in EnhanceResponses :
            (EnhanceResponse(r, resp) /\ Live(r))
            => /\ ~gen'.loading
               /\ (~resp.rejected /\ resp.text # <<>>) => gen'.prompt = Trim(resp.text)
               /\ (~resp.rejected /\ resp.text = <<>>) => gen'.prompt = gen.prompt
               /\ resp.rejected
                    => /\ gen'.errorMsg = Some(Text("Failed to enhance prompt."))
                       /\ gen'.prompt = gen.prompt]_vars

\* the prompt is the trimmed text of an enhancer response, which no input
\* of the user produces here
C21_Witness ==
    /\ build = "index"
    /\ Mounted
    /\ gen.prompt = <<"b">>
    /\ ~gen.loading

\* C21 as stated, for every call of handleEnhancePrompt that settles, mounted
\* view or not.
C21_AsStated ==
    [][\A r \in requests, resp \in EnhanceResponses :
         EnhanceResponse(r, resp)
         => /\ ~gen'.loading
            /\ (~resp.rejected /\ resp.text # <<>>) => gen'.prompt = Trim(resp.text)
            /\ resp.rejected
                 => /\ gen'.errorMsg = Some(Text("Failed to enhance prompt."))
                    /\ gen'.prompt = gen.prompt]_vars

\* the output size of compressImage as described: the width is min(w, 384), the height is
\* h when w <= 384 and round(h * 384 / w) otherwise
SizeAsDescribed ==
    /\ canvas[1].width = Min(img[1].width, MaxWidth)
    /\ canvas[1].height = IF img[1].width <= MaxWidth THEN img[1].height
                          ELSE RoundDiv(img[1].height * MaxWidth, img[1].width)

\* C22: for every image of width >= 1 and height >= 1, the canvas compressImage draws to
\* has the size described and both its width and its height are at least 1
C22_ValidDimensions ==
    (canvas # Null /\ img[1].width >= 1 /\ img[1].height >= 1)
        => /\ SizeAsDescribed
           /\ canvas[1].width >= 1
           /\ canvas[1].height >= 1

\* C27: after any sequence of zoomIn, zoomOut, reset, wheel, mouse-down, mouse-move and
\* mouse-up events the scale is within [1, 5], and the pan position is (0, 0) whenever
\* the scale is 1
C27_ScaleAndPan ==
    /\ panZoom.scale \in ScaleOne..ScaleMax
    /\ panZoom.scale = ScaleOne => panZoom.position = <<0, 0>>

\* the positions of the items of s whose identifier is not id
KeptPositions(s, id) == {i \in 1..Len(s) : s[i].id # id}

\* the n-th smallest member of a set of positions
NthPosition(S, n) == CHOOSE k \in S : Cardinality({j \in S : j < k}) = n - 1

\* t is s without the items whose identifier is id, the others in their order
WithoutId(s, t, id) ==
    /\ Len(t) = Cardinality(KeptPositions(s, id))
    /\ \A n \in 1..Len(t) : t[n] = s[NthPosition(KeptPositions(s, id), n)]

\* C25: a deletion from the lightbox removes exactly the gallery items that have the
\* identifier of the selected item, keeps every other item and their order, and sets
\* selectedItem to null; and the item the lightbox shows is always in the gallery
C25_LightboxDelete ==
    /\ [][\A confirmed \in BOOLEAN :
            (GalleryDelete(confirmed) /\ (build = "index" \/ confirmed))
                => /\ WithoutId(galleryItems, galleryItems', selectedItem[1].id)
                   /\ selectedItem' = Null]_vars
    /\ [](selectedItem # Null
            => \E i \in 1..Len(galleryItems) : galleryItems[i] = selectedItem[1])

\* two generations have each added an item and one of the two has been deleted
C25_Witness ==
    /\ selectedItem = Null
    /\ Len(galleryItems) = 1
    /\ issued = 2
    /\ requests = {}
    /\ ~gen.loading

\* C26: when the user chooses to use an analysis result as a prompt, the active tab
\* becomes 'generate', the prompt of the generate view becomes the analysis text and
\* sharedPrompt is the empty string again, whatever the prompt was before (so also at a
\* second hand-off of the same text); sharedPrompt is the empty string between events
C26_AnalysisHandoff ==
    /\ [][HandleGenerateFromAnalysis
            => /\ activeTab' = "generate"
               /\ gen'.prompt = analyze.analysis
               /\ sharedPrompt' = <<>>]_vars
    /\ [](sharedPrompt = <<>>)

\* the analysis text has been handed to the generate view
C26_Witness ==
    /\ activeTab = "generate"
    /\ analyze.analysis = AnalysisText
    /\ gen.prompt = AnalysisText
    /\ sharedPrompt = <<>>

\* the current chat session carries no more turns than the list has user messages: none
\* when the list is empty
HistoryIsShown ==
    (Mounted /\ chat.chatSession # Null)
        => Len(chat.chatSession[1])
               <= Cardinality({j \in 1..Len(chat.messages) : chat.messages[j].role = "user"})

\* C24: clearing the chat empties the message list; the session the next message is
\* sent in carries no turn of the cleared conversation; and a chunk of a reply that was
\* streaming when the chat was cleared adds no message to the list
C24_ClearChat ==
    /\ [][ClearChat => chat'.messages = <<>>]_vars
    /\ [][\A r \in requests, text \in ChunkTexts :
            ChatChunk(r, text) => Len(chat'.messages) = Len(chat.messages)]_vars
    /\ []HistoryIsShown

\* C23: when the awaited call of a request settles in the view that is still mounted,
\* the busy flag of that view is false afterwards, also for a cancelled generation and
\* for a response that is discarded; and, as every call settles, a busy flag that is
\* true becomes false (loading of generate, edit and analyze, isTyping of chat)
C23_BusyFlagEnds ==
    /\ [][\A r \in requests :
            /\ (Live(r) /\ \E resp \in BusyResponses : GenerateResponse(r, resp))
                   => ~gen'.loading
            /\ (Live(r) /\ EnhanceResponse(r, NetworkError)) => ~gen'.loading
            /\ (Live(r) /\ \E resp \in BusyResponses : EditResponse(r, resp))
                   => ~edit'.loading
            /\ (Live(r) /\ AnalyzeResponse(r, NetworkError)) => ~analyze'.loading
            /\ (Live(r) /\ (ChatStreamEnd(r) \/ ChatError(r))) => ~chat'.isTyping]_vars
    /\ gen.loading ~> ~gen.loading
    /\ edit.loading ~> ~edit.loading
    /\ analyze.loading ~> ~analyze.loading
    /\ chat.isTyping ~> ~chat.isTyping

\* a generation was cancelled, and every call that was made has settled
C23_Witness ==
    /\ cancelled # {}
    /\ issued = 2
    /\ requests = {}
    /\ ~gen.loading /\ ~edit.loading /\ ~analyze.loading /\ ~chat.isTyping

====
